---- MODULE Spec2Model ----
(***************************************************************************)
(* Model of the pipe-collection game server (src/src/model.rs): the App    *)
(* state (users, pipes, log_senders, history), the three player operations *)
(* pipe_value, collect and apply_modifier split at their lock acquisitions *)
(* and suspensions, and the event log (log, register_logs,                 *)
(* unregister_logs).                                                       *)
(***************************************************************************)
EXTENDS Integers, Sequences, FiniteSets, TLC

(***************************************************************************)
(* Bounds of the model.                                                    *)
(***************************************************************************)
\* Operations accepted (past try_lock_user and the pipe lookup) in one run of Spec.
MaxOps == 2
\* The same in one run of SpecSeq, which starts from fewer initial states.
MaxSeqOps == 4
\* Calls of App::log made by the log writers of SpecLog in one run.
MaxAppends == 2
\* Largest value of the elapsed clock read by App::log in SpecLog.
MaxClock == 1
\* Largest number of uses a configuration of SpecUses gives a stacking modifier.
MaxUses == 1
\* Operations accepted in one run of SpecUses.
MaxUsesOps == 4
\* Operations the transport accepts in one run of SpecRun.
MaxRunOps == 1
\* Operations and calls of log started while every lock is modelled.
MaxLockOps == 2

(***************************************************************************)
(* Universes the inputs are drawn from.                                    *)
(***************************************************************************)
Tokens == {"alice", "bob"}
Chans == {"c1", "c2"}
Free == "free"

Stacking == {"Slow", "Double", "Min"}
Modifiers == Stacking \cup {"Shuffle", "Reverse"}
Kinds == {"pipe_value", "collect", "apply_modifier"}

\* Config (model.rs:19-35); delays are in abstract time units.
BaseConfig ==
    [reverse_cost |-> 1, double_cost |-> 2, double_uses |-> 1,
     slow_cost |-> 0, slow_uses |-> 2, shuffle_cost |-> 1,
     min_cost |-> 1, min_uses |-> 1,
     pipe_count |-> 1, min_value |-> 1, max_value |-> 3,
     min_delay |-> 1, max_delay |-> 2, pipe_value_delay |-> 1]

Configs == {BaseConfig}

\* The `users` argument of App::init: empty = open roster.
Rosters == {<<>>, <<"alice">>}

Range(s) == {s[i] : i \in 1..Len(s)}

VARIABLES
    config,               \* App.config
    allow_unknown_users,  \* App.allow_unknown_users
    roster,               \* the users argument App::init was called with
    users,                \* App.users: token -> [score, lock]
    pipes,                \* App.pipes: id -> Pipe
    pipeLock,             \* the Mutex around each Pipe: holder or Free
    log_senders,          \* App.log_senders: sequence of channels
    sendersLock,          \* the Mutex around log_senders: holder or Free
    history,              \* App.history: sequence of LogEntry
    chan,                 \* what each channel's receiver has been sent
    req,                  \* each token's operation past try_lock_user: position and locals
    inflight,             \* per token, operations past try_lock_user and not returned
    nops,                 \* operations accepted so far
    budget,               \* operations a run may accept
    ret,                  \* what the last step returned to its caller
    writer,               \* SpecLog: each token's call of App::log, step by step
    sub,                  \* SpecLog: callers of register_logs/unregister_logs
    clock,                \* App.start.elapsed()
    nextSeq,              \* identity of the next LogEntry created
    runner                \* SpecRun: main.rs run and server::run, the transport, the log sink

vars == <<config, allow_unknown_users, roster, users, pipes, pipeLock,
          log_senders, sendersLock, history, chan, req, inflight, nops, budget, ret,
          writer, sub, clock, nextSeq, runner>>

\* What no operation of the App changes.
appVars == <<config, allow_unknown_users, roster, budget, runner>>
logProcVars == <<writer, sub, clock>>

(***************************************************************************)
(* Data model.                                                             *)
(***************************************************************************)
NoModifiers == [m \in {} |-> 0]

\* HashMap::insert and HashMap::remove on Pipe.modifiers.
MapInsert(f, k, v) == [m \in (DOMAIN f) \cup {k} |-> IF m = k THEN v ELSE f[m]]
MapRemove(f, k) == [m \in (DOMAIN f) \ {k} |-> f[m]]

\* User::default()
DefaultUser == [score |-> 0, lock |-> Free]

\* The record a LogMessage::UpdateUser carries (User has the one field).
UserState(u) == [score |-> u.score]

\* Config::modifier_cost
modifier_cost(cfg, modifier) ==
    CASE modifier = "Slow" -> cfg.slow_cost
      [] modifier = "Double" -> cfg.double_cost
      [] modifier = "Min" -> cfg.min_cost
      [] modifier = "Shuffle" -> cfg.shuffle_cost
      [] modifier = "Reverse" -> cfg.reverse_cost

\* The uses a stacking modifier is installed with (apply_modifier).
modifier_uses(cfg, modifier) ==
    CASE modifier = "Slow" -> cfg.slow_uses
      [] modifier = "Double" -> cfg.double_uses
      [] modifier = "Min" -> cfg.min_uses

\* Config::random_pipe_delay and Config::random_pipe_value: any value of the range.
random_pipe_delay(cfg) == cfg.min_delay .. cfg.max_delay
random_pipe_value(cfg) == cfg.min_value .. cfg.max_value

\* PipeDirection::inverse
inverse(direction) == IF direction = "Up" THEN "Down" ELSE "Up"

\* Pipe::use_modifier: the pipe afterwards, whether the modifier was used, and
\* whether assert_ne!(*uses_left, 0) failed.
use_modifier(pipe, modifier) ==
    IF modifier \notin DOMAIN pipe.modifiers
    THEN [pipe |-> pipe, used |-> FALSE, panic |-> FALSE]
    ELSE IF pipe.modifiers[modifier] = 0
    THEN [pipe |-> pipe, used |-> FALSE, panic |-> TRUE]
    ELSE LET left == pipe.modifiers[modifier] - 1 IN
         [pipe |-> [pipe EXCEPT !.modifiers =
                        IF left = 0 THEN MapRemove(@, modifier)
                        ELSE [@ EXCEPT ![modifier] = left]],
          used |-> TRUE, panic |-> FALSE]

\* collect, model.rs:437-445: one step in the pipe's direction, wrapping.
AdvanceNoWrap(cfg, pipe) ==
    pipe.value + (IF pipe.direction = "Up" THEN 1 ELSE -1)

AdvanceSaturating(cfg, pipe) ==
    LET v == pipe.value + (IF pipe.direction = "Up" THEN 1 ELSE -1) IN
    IF v < cfg.min_value THEN cfg.min_value
    ELSE IF v > cfg.max_value THEN cfg.max_value
    ELSE v

Advance(cfg, pipe) ==
    LET v == pipe.value + (IF pipe.direction = "Up" THEN 1 ELSE -1) IN
    IF v < cfg.min_value THEN cfg.max_value
    ELSE IF v > cfg.max_value THEN cfg.min_value
    ELSE v

\* collect, model.rs:423-433: the award, and the pipe after Double and Min were used.
\* The bug of using Double up without doubling.
AwardWithoutDouble(cfg, pipe) ==
    LET d == use_modifier(pipe, "Double")
        m == use_modifier(d.pipe, "Min")
        s2 == IF m.used THEN cfg.min_value ELSE pipe.value
    IN IF d.panic THEN [pipe |-> pipe, score |-> 0, panic |-> TRUE]
       ELSE [pipe |-> m.pipe, score |-> s2, panic |-> m.panic]

\* The bug of using Min before Double, so that the minimum is doubled.
AwardMinBeforeDouble(cfg, pipe) ==
    LET m == use_modifier(pipe, "Min")
        s1 == IF m.used THEN cfg.min_value ELSE pipe.value
        d == use_modifier(m.pipe, "Double")
        s2 == IF d.used THEN s1 * 2 ELSE s1
    IN IF m.panic THEN [pipe |-> pipe, score |-> 0, panic |-> TRUE]
       ELSE [pipe |-> d.pipe, score |-> s2, panic |-> d.panic]

Award(cfg, pipe) ==
    LET d == use_modifier(pipe, "Double")
        s1 == IF d.used THEN pipe.value * 2 ELSE pipe.value
        m == use_modifier(d.pipe, "Min")
        s2 == IF m.used THEN cfg.min_value ELSE s1
    IN IF d.panic THEN [pipe |-> pipe, score |-> 0, panic |-> TRUE]
       ELSE [pipe |-> m.pipe, score |-> s2, panic |-> m.panic]

(***************************************************************************)
(* Log entries and messages.                                               *)
(***************************************************************************)
Entry(time, msg, seq) == [time |-> time, msg |-> msg, seq |-> seq]

UpdateUser(token, user) ==
    [type |-> "UpdateUser", user |-> token, state |-> UserState(user)]
UpdatePipe(id, pipe) == [type |-> "UpdatePipe", id |-> id, state |-> pipe]
CollectStart(token, pipe_id, delay) ==
    [type |-> "CollectStart", user |-> token, pipe_id |-> pipe_id, delay |-> delay]
CollectEnd(token) == [type |-> "CollectEnd", user |-> token]

\* The for loop of App::log: the entry is sent on every registered channel.
FanOut(ch, senders, entry) ==
    [c \in DOMAIN ch |->
        IF c \in Range(senders) THEN Append(ch[c], entry) ELSE ch[c]]

(***************************************************************************)
(* App::init                                                               *)
(***************************************************************************)
InitHistory(tokens, ps) ==
    [i \in 1..(Len(tokens) + Len(ps)) |->
        IF i <= Len(tokens)
        THEN Entry(0, UpdateUser(tokens[i], DefaultUser), i)
        ELSE Entry(0, UpdatePipe(i - Len(tokens), ps[i - Len(tokens)]), i)]

IdleReq ==
    [pc |-> "idle", kind |-> "none", pipe |-> 0, mod |-> "none", delay |-> 0,
     score |-> 0]

NoRet == [tok |-> "none", kind |-> "none", res |-> "none", value |-> 0]

IdleWriter == [pc |-> "idle", entry |-> Entry(0, "none", 0)]

\* A channel nobody has registered yet: where its register_logs call stands, how
\* long the history was when it was replayed and when the channel was registered,
\* and whether unregister_logs has run for it.
NewSub == [pc |-> "new", replayed |-> 0, registered_at |-> 0, unregistered |-> FALSE]

\* The log sink's channel (main.rs:59).
Sink == "c1"

\* main.rs run is not running.
NoRunner ==
    [pc |-> "off", save_log |-> FALSE, timed |-> FALSE, transport |-> "off",
     deadline |-> FALSE, pending |-> {}, sink |-> "none", sunk |-> 0,
     closed |-> FALSE, snapshot |-> [t \in {} |-> 0]]

\* The App that App::init(cfg, tokens) builds with the pipes ps it drew.
InitApp(cfg, tokens, ps) ==
    /\ config = cfg
    /\ roster = tokens
    /\ allow_unknown_users = (Len(tokens) = 0)
    /\ users = [t \in Range(tokens) |-> DefaultUser]
    /\ pipes = ps
    /\ pipeLock = [p \in DOMAIN ps |-> Free]
    /\ log_senders = <<>>
    /\ sendersLock = Free
    /\ history = InitHistory(tokens, ps)
    /\ nextSeq = Len(tokens) + Len(ps) + 1
    /\ clock = 0

\* The pipes App::init may draw.
InitPipes(cfg) ==
    [1..cfg.pipe_count ->
        [value : random_pipe_value(cfg),
         base_delay : random_pipe_delay(cfg),
         direction : {"Up", "Down"},
         modifiers : {NoModifiers}]]

\* Nothing is running yet.
InitIdle ==
    /\ chan = [c \in Chans |-> <<>>]
    /\ req = [t \in Tokens |-> IdleReq]
    /\ inflight = [t \in Tokens |-> 0]
    /\ nops = 0
    /\ ret = NoRet
    /\ writer = [t \in Tokens |-> IdleWriter]
    /\ sub = [c \in Chans |-> NewSub]

\* No runner: the App is driven directly.
InitNoRunner == runner = NoRunner

\* Every roster and every value and direction the pipes may start with; of the delays
\* App::init may draw, the shortest (Shuffle draws the others).
Init ==
    /\ \E cfg \in Configs, tokens \in Rosters :
           \E ps \in InitPipes(cfg) :
               /\ \A p \in DOMAIN ps : ps[p].base_delay = cfg.min_delay
               /\ InitApp(cfg, tokens, ps)
    /\ InitIdle
    /\ InitNoRunner
    /\ budget = MaxOps

(***************************************************************************)
(* Locks and lookups.                                                      *)
(***************************************************************************)
\* Mutex::try_lock_arc on a user's cell: never waits.
Held == "held"

TryLockIgnoringHolder(user) == [ok |-> TRUE, user |-> [user EXCEPT !.lock = Held]]

try_lock_arc(user) ==
    IF user.lock = Free
    THEN [ok |-> TRUE, user |-> [user EXCEPT !.lock = Held]]
    ELSE [ok |-> FALSE, user |-> user]

\* App::try_lock_user, under the registry lock: the registry afterwards and the result.
\* The bug of never creating a player: an unseen token is unknown under any roster.
TryLockUserNotCreating(us, allow, token) ==
    IF token \notin DOMAIN us
    THEN [users |-> us, res |-> "UserNotFound"]
    ELSE LET got == try_lock_arc(us[token])
         IN IF got.ok
            THEN [users |-> [us EXCEPT ![token] = got.user], res |-> "Ok"]
            ELSE [users |-> us, res |-> "UserBusy"]

TryLockUserCreating(us, allow, token) ==
    LET us1 == IF token \in DOMAIN us THEN us
               ELSE [t \in (DOMAIN us) \cup {token} |->
                        IF t = token THEN DefaultUser ELSE us[t]]
        got == try_lock_arc(us1[token])
    IN IF got.ok
       THEN [users |-> [us1 EXCEPT ![token] = got.user], res |-> "Ok"]
       ELSE [users |-> us1, res |-> "UserBusy"]

\* The bug of waiting for the user's lock instead of trying it: the request goes ahead.
TryLockUserQueueing(us, allow, token) ==
    IF ~allow /\ token \notin DOMAIN us
    THEN [users |-> us, res |-> "UserNotFound"]
    ELSE LET us1 == IF token \in DOMAIN us THEN us
                    ELSE [t \in (DOMAIN us) \cup {token} |->
                             IF t = token THEN DefaultUser ELSE us[t]]
         IN [users |-> [us1 EXCEPT ![token].lock = Held], res |-> "Ok"]

try_lock_user(us, allow, token) ==
    IF ~allow /\ token \notin DOMAIN us
    THEN [users |-> us, res |-> "UserNotFound"]
    ELSE LET us1 == IF token \in DOMAIN us THEN us
                    ELSE [t \in (DOMAIN us) \cup {token} |->
                             IF t = token THEN DefaultUser ELSE us[t]]
             got == try_lock_arc(us1[token])
         IN IF got.ok
            THEN [users |-> [us1 EXCEPT ![token] = got.user], res |-> "Ok"]
            ELSE [users |-> us1, res |-> "UserBusy"]

\* Dropping the MutexGuardArc<User> when an operation returns.
LeakUserGuard(us, token) == us

DropUserGuard(us, token) == [us EXCEPT ![token].lock = Free]

\* App::results: every player's score, by token.
results(us) == [t \in DOMAIN us |-> us[t].score]

\* App::pipe
PipeFound(ps, id) == id \in DOMAIN ps

\* The pipe ids a request may carry: every pipe, and two ids that are no pipe.
PipeIds == 0..(config.pipe_count + 1)

InFlight(t) == req[t].pc # "idle"

\* What an operation hands back to its caller.
Return(t, res, value) == [tok |-> t, kind |-> req[t].kind, res |-> res, value |-> value]

\* The operation of token t has returned.
Finish(t) ==
    /\ req' = [req EXCEPT ![t] = IdleReq]
    /\ inflight' = [inflight EXCEPT ![t] = @ - 1]

(***************************************************************************)
(* App::log, as one step: the caller holds log_senders from the fan-out to *)
(* the push on history (the guard `senders` lives to the end of log), so   *)
(* calls of log are serialised as a whole.                                 *)
(***************************************************************************)
Log(msg) ==
    LET entry == Entry(clock, msg, nextSeq) IN
    /\ sendersLock = Free
    /\ chan' = FanOut(chan, log_senders, entry)
    /\ history' = Append(history, entry)
    /\ nextSeq' = nextSeq + 1

NoLog == UNCHANGED <<chan, history, nextSeq>>

(***************************************************************************)
(* The start of every operation: try_lock_user, then the pipe lookup.      *)
(* pipe_value: model.rs:370-371; collect: 389-390; apply_modifier: 471-472 *)
(***************************************************************************)
FirstPc(kind) ==
    CASE kind = "pipe_value" -> "pv_sleep"
      [] kind = "collect" -> "c_pre"
      [] kind = "apply_modifier" -> "a_lock"

\* A request refused before any work: the caller learns only the error.
Refused(token, res) == [tok |-> token, kind |-> "none", res |-> res, value |-> 0]

\* try_lock_user refuses: the operation returns the error at once (the `?`).
StartRefused(token) ==
    LET got == try_lock_user(users, allow_unknown_users, token) IN
    /\ got.res # "Ok"
    /\ users' = got.users
    /\ ret' = Refused(token, got.res)
    /\ NoLog
    /\ UNCHANGED <<appVars, pipes, pipeLock, log_senders, sendersLock, req, inflight,
                   nops, logProcVars>>

\* The user is locked but App::pipe finds no pipe: the guard is dropped on return.
StartPipeNotFound(token, pipe_id) ==
    LET got == try_lock_user(users, allow_unknown_users, token) IN
    /\ got.res = "Ok"
    /\ ~PipeFound(pipes, pipe_id)
    /\ users' = DropUserGuard(got.users, token)
    /\ ret' = Refused(token, "PipeNotFound")
    /\ NoLog
    /\ UNCHANGED <<appVars, pipes, pipeLock, log_senders, sendersLock, req, inflight,
                   nops, logProcVars>>

\* The user is locked and the pipe exists: the operation is under way.
StartAccepted(kind, token, pipe_id, modifier) ==
    LET got == try_lock_user(users, allow_unknown_users, token) IN
    /\ got.res = "Ok"
    /\ PipeFound(pipes, pipe_id)
    /\ nops < budget
    /\ users' = got.users
    /\ req' = [req EXCEPT ![token] =
                  [pc |-> FirstPc(kind), kind |-> kind, pipe |-> pipe_id,
                   mod |-> modifier, delay |-> 0, score |-> 0]]
    /\ inflight' = [inflight EXCEPT ![token] = @ + 1]
    /\ nops' = nops + 1
    /\ ret' = NoRet
    /\ NoLog
    /\ UNCHANGED <<appVars, pipes, pipeLock, log_senders, sendersLock, logProcVars>>

\* A request of any kind arrives: the three outcomes of its first two lines.
Start ==
    \E token \in Tokens :
        \/ StartRefused(token)
        \/ \E pipe_id \in PipeIds : StartPipeNotFound(token, pipe_id)
        \/ \E pipe_id \in PipeIds, kind \in Kinds :
              \E modifier \in (IF kind = "apply_modifier" THEN Modifiers ELSE {"none"}) :
                  StartAccepted(kind, token, pipe_id, modifier)

(***************************************************************************)
(* App::pipe_value after try_lock_user: sleep, then read under the lock.   *)
(***************************************************************************)
PipeValueRead(t) ==
    LET p == req[t].pipe IN
    /\ req[t].pc = "pv_sleep"
    /\ pipeLock[p] = Free
    /\ ret' = Return(t, "Ok", pipes[p].value)
    /\ users' = DropUserGuard(users, t)
    /\ Finish(t)
    /\ NoLog
    /\ UNCHANGED <<appVars, pipes, pipeLock, log_senders, sendersLock, nops, logProcVars>>

(***************************************************************************)
(* App::collect after try_lock_user and the pipe lookup.                   *)
(***************************************************************************)
\* model.rs:393-398: lock the pipe, read base_delay, use Slow.
\* The bug of doubling the delay without using Slow up.
CollectPreLockKeepingSlow(t) ==
    LET p == req[t].pipe IN
    /\ req[t].pc = "c_pre"
    /\ pipeLock[p] = Free
    /\ pipeLock' = [pipeLock EXCEPT ![p] = t]
    /\ req' = [req EXCEPT ![t].pc = "c_prelog",
                          ![t].delay = IF "Slow" \in DOMAIN pipes[p].modifiers
                                       THEN pipes[p].base_delay * 2
                                       ELSE pipes[p].base_delay]
    /\ ret' = NoRet
    /\ NoLog
    /\ UNCHANGED <<appVars, users, pipes, inflight, log_senders, sendersLock, nops,
                   logProcVars>>

CollectPreLock(t) ==
    LET p == req[t].pipe
        slow == use_modifier(pipes[p], "Slow")
    IN
    /\ req[t].pc = "c_pre"
    /\ pipeLock[p] = Free
    /\ IF slow.panic
       THEN /\ ret' = Return(t, "Panic", 0)
            /\ users' = DropUserGuard(users, t)
            /\ Finish(t)
            /\ UNCHANGED <<pipes, pipeLock>>
       ELSE /\ pipeLock' = [pipeLock EXCEPT ![p] = t]
            /\ pipes' = [pipes EXCEPT ![p] = slow.pipe]
            /\ req' = [req EXCEPT ![t].pc = "c_prelog",
                                  ![t].delay = IF slow.used
                                               THEN pipes[p].base_delay * 2
                                               ELSE pipes[p].base_delay]
            /\ ret' = NoRet
            /\ UNCHANGED inflight
            /\ UNCHANGED users
    /\ NoLog
    /\ UNCHANGED <<appVars, log_senders, sendersLock, nops, logProcVars>>

\* model.rs:405: the block that locked the pipe ends before the wait, and with it the
\* pipe's guard.
\* The bug of keeping the pipe's guard over the wait.
KeepPipeGuard(locks, p) == locks

DropPipeGuard(locks, p) == [locks EXCEPT ![p] = Free]

\* model.rs:399-405: log UpdatePipe, then the pipe's guard is dropped.
\* The bug of logging the pipe only when Slow changed it.
CollectPreLogIfSlowed(t) ==
    LET p == req[t].pipe IN
    /\ req[t].pc = "c_prelog"
    /\ IF req[t].delay # pipes[p].base_delay
       THEN Log(UpdatePipe(p, pipes[p]))
       ELSE NoLog
    /\ pipeLock' = DropPipeGuard(pipeLock, p)
    /\ req' = [req EXCEPT ![t].pc = "c_start"]
    /\ ret' = NoRet
    /\ UNCHANGED <<appVars, users, pipes, log_senders, sendersLock, inflight, nops, logProcVars>>

CollectPreLog(t) ==
    LET p == req[t].pipe IN
    /\ req[t].pc = "c_prelog"
    /\ Log(UpdatePipe(p, pipes[p]))
    /\ pipeLock' = DropPipeGuard(pipeLock, p)
    /\ req' = [req EXCEPT ![t].pc = "c_start"]
    /\ ret' = NoRet
    /\ UNCHANGED <<appVars, users, pipes, log_senders, sendersLock, inflight, nops, logProcVars>>

\* model.rs:406-413: log CollectStart, then sleep.
CollectStartLog(t) ==
    /\ req[t].pc = "c_start"
    /\ Log(CollectStart(t, req[t].pipe, req[t].delay))
    /\ req' = [req EXCEPT ![t].pc = "c_sleep"]
    /\ ret' = NoRet
    /\ UNCHANGED <<appVars, users, pipes, pipeLock, log_senders, sendersLock, inflight, nops,
                   logProcVars>>

\* model.rs:413-417: the sleep is over; log CollectEnd.
CollectEndLog(t) ==
    /\ req[t].pc = "c_sleep"
    /\ Log(CollectEnd(t))
    /\ req' = [req EXCEPT ![t].pc = "c_post"]
    /\ ret' = NoRet
    /\ UNCHANGED <<appVars, users, pipes, pipeLock, log_senders, sendersLock, inflight, nops,
                   logProcVars>>

\* model.rs:435: the award is added to the score behind the caller's own guard.
\* The bug of crediting every player.
CreditAll(us, token, score) ==
    [u \in DOMAIN us |-> [us[u] EXCEPT !.score = @ + score]]

Credit(us, token, score) == [us EXCEPT ![token].score = @ + score]

\* model.rs:422: the pipe the collect of token t awards from, read under the lock
\* taken after the wait.
\* The bug of awarding from the pipe as the collect logged it before its wait.
PipeBeforeWait(t) ==
    LET starts == {i \in 1..Len(history) :
                      /\ history[i].msg.type = "CollectStart"
                      /\ history[i].msg.user = t}
        last == CHOOSE i \in starts : \A j \in starts : j <= i
        shown == {i \in 1..last :
                     /\ history[i].msg.type = "UpdatePipe"
                     /\ history[i].msg.id = req[t].pipe}
    IN history[CHOOSE i \in shown : \A j \in shown : j <= i].msg.state

RelockedPipe(t) == pipes[req[t].pipe]

\* model.rs:422-446: lock the pipe again, award, credit, advance the value.
\* The bug of reading the pipe before the wait and writing it back, advanced, after.
CollectPostLockWritingBack(t) ==
    LET p == req[t].pipe
        got == Award(config, PipeBeforeWait(t))
    IN
    /\ req[t].pc = "c_post"
    /\ pipeLock[p] = Free
    /\ ~got.panic
    /\ pipeLock' = [pipeLock EXCEPT ![p] = t]
    /\ users' = Credit(users, t, got.score)
    /\ pipes' = [pipes EXCEPT ![p] =
                    [got.pipe EXCEPT !.value = Advance(config, got.pipe)]]
    /\ req' = [req EXCEPT ![t].pc = "c_postlog1", ![t].score = got.score]
    /\ ret' = NoRet
    /\ NoLog
    /\ UNCHANGED <<appVars, inflight, log_senders, sendersLock, nops, logProcVars>>

CollectPostLock(t) ==
    LET p == req[t].pipe
        got == Award(config, RelockedPipe(t))
    IN
    /\ req[t].pc = "c_post"
    /\ pipeLock[p] = Free
    /\ IF got.panic
       THEN /\ ret' = Return(t, "Panic", 0)
            /\ pipes' = [pipes EXCEPT ![p] = got.pipe]
            /\ users' = DropUserGuard(users, t)
            /\ Finish(t)
            /\ UNCHANGED pipeLock
       ELSE /\ pipeLock' = [pipeLock EXCEPT ![p] = t]
            /\ users' = Credit(users, t, got.score)
            /\ pipes' = [pipes EXCEPT ![p] =
                            [got.pipe EXCEPT !.value = Advance(config, got.pipe)]]
            /\ req' = [req EXCEPT ![t].pc = "c_postlog1", ![t].score = got.score]
            /\ ret' = NoRet
            /\ UNCHANGED inflight
    /\ NoLog
    /\ UNCHANGED <<appVars, log_senders, sendersLock, nops, logProcVars>>

\* model.rs:447-451: log UpdatePipe, still under the pipe's lock.
CollectPostLogPipe(t) ==
    LET p == req[t].pipe IN
    /\ req[t].pc = "c_postlog1"
    /\ Log(UpdatePipe(p, pipes[p]))
    /\ req' = [req EXCEPT ![t].pc = "c_postlog2"]
    /\ ret' = NoRet
    /\ UNCHANGED <<appVars, users, pipes, pipeLock, log_senders, sendersLock, inflight, nops,
                   logProcVars>>

\* model.rs:452-458: log UpdateUser and return; both guards are dropped.
CollectReturn(t) ==
    LET p == req[t].pipe
    IN
    /\ req[t].pc = "c_postlog2"
    /\ Log(UpdateUser(t, users[t]))
    /\ pipeLock' = [pipeLock EXCEPT ![p] = Free]
    /\ users' = DropUserGuard(users, t)
    /\ ret' = Return(t, "Ok", req[t].score)
    /\ Finish(t)
    /\ UNCHANGED <<appVars, pipes, log_senders, sendersLock, nops, logProcVars>>

(***************************************************************************)
(* App::apply_modifier after try_lock_user and the pipe lookup.            *)
(***************************************************************************)
\* model.rs:482-505: the effect of the modifier on the pipe (the pipes it may become).
\* The bug of storing Shuffle and Reverse in the modifiers map like the others.
ApplyEffectStoringAll(cfg, pipe, modifier) ==
    CASE modifier \in Stacking ->
            {[pipe EXCEPT !.modifiers =
                 MapInsert(@, modifier, modifier_uses(cfg, modifier))]}
      [] modifier = "Shuffle" ->
            {[pipe EXCEPT !.base_delay = d, !.modifiers = MapInsert(@, modifier, 1)] :
                 d \in random_pipe_delay(cfg)}
      [] modifier = "Reverse" ->
            {[pipe EXCEPT !.direction = inverse(@),
                          !.modifiers = MapInsert(@, modifier, 1)]}

ApplyEffect(cfg, pipe, modifier) ==
    CASE modifier \in Stacking ->
            {[pipe EXCEPT !.modifiers =
                 MapInsert(@, modifier, modifier_uses(cfg, modifier))]}
      [] modifier = "Shuffle" ->
            {[pipe EXCEPT !.base_delay = d] : d \in random_pipe_delay(cfg)}
      [] modifier = "Reverse" ->
            {[pipe EXCEPT !.direction = inverse(@)]}

\* model.rs:478 and 484: the checks that refuse the modifier.
ApplyRefusalNoScoreCheck(cfg, user, pipe, modifier) ==
    IF modifier \in Stacking /\ modifier \in DOMAIN pipe.modifiers
    THEN "ModifierAlreadyApplied"
    ELSE "Ok"

ApplyRefusalNoActiveCheck(cfg, user, pipe, modifier) ==
    IF user.score < modifier_cost(cfg, modifier) THEN "NotEnoughScore" ELSE "Ok"

ApplyRefusal(cfg, user, pipe, modifier) ==
    IF user.score < modifier_cost(cfg, modifier) THEN "NotEnoughScore"
    ELSE IF modifier \in Stacking /\ modifier \in DOMAIN pipe.modifiers
    THEN "ModifierAlreadyApplied"
    ELSE "Ok"

\* model.rs:506: the debit.
DebitTwice(cfg, user, modifier) ==
    [user EXCEPT !.score = @ - 2 * modifier_cost(cfg, modifier)]

Debit(cfg, user, modifier) ==
    [user EXCEPT !.score = @ - modifier_cost(cfg, modifier)]

\* model.rs:472-507: lock the pipe, check, apply the effect, debit the cost.
ApplyLock(t) ==
    LET p == req[t].pipe
        m == req[t].mod
        refusal == ApplyRefusal(config, users[t], pipes[p], m)
    IN
    /\ req[t].pc = "a_lock"
    /\ pipeLock[p] = Free
    /\ IF refusal # "Ok"
       THEN /\ ret' = Return(t, refusal, 0)
            /\ users' = DropUserGuard(users, t)
            /\ Finish(t)
            /\ UNCHANGED <<pipes, pipeLock>>
       ELSE /\ pipeLock' = [pipeLock EXCEPT ![p] = t]
            /\ \E np \in ApplyEffect(config, pipes[p], m) :
                   pipes' = [pipes EXCEPT ![p] = np]
            /\ users' = [users EXCEPT ![t] = Debit(config, @, m)]
            /\ req' = [req EXCEPT ![t].pc = "a_log1"]
            /\ ret' = NoRet
            /\ UNCHANGED inflight
    /\ NoLog
    /\ UNCHANGED <<appVars, log_senders, sendersLock, nops, logProcVars>>

\* model.rs:508-512: log UpdateUser.
ApplyLogUser(t) ==
    /\ req[t].pc = "a_log1"
    /\ Log(UpdateUser(t, users[t]))
    /\ req' = [req EXCEPT ![t].pc = "a_log2"]
    /\ ret' = NoRet
    /\ UNCHANGED <<appVars, users, pipes, pipeLock, log_senders, sendersLock, inflight, nops,
                   logProcVars>>

\* model.rs:513-518: log UpdatePipe and return; both guards are dropped.
ApplyReturn(t) ==
    LET p == req[t].pipe
    IN
    /\ req[t].pc = "a_log2"
    /\ Log(UpdatePipe(p, pipes[p]))
    /\ pipeLock' = [pipeLock EXCEPT ![p] = Free]
    /\ users' = DropUserGuard(users, t)
    /\ ret' = Return(t, "Ok", 0)
    /\ Finish(t)
    /\ UNCHANGED <<appVars, pipes, log_senders, sendersLock, nops, logProcVars>>

(***************************************************************************)
(* The game engine under concurrent requests.                              *)
(***************************************************************************)
Next ==
    \/ Start
    \/ \E t \in Tokens : PipeValueRead(t)
    \/ \E t \in Tokens : CollectPreLock(t)
    \/ \E t \in Tokens : CollectPreLog(t)
    \/ \E t \in Tokens : CollectStartLog(t)
    \/ \E t \in Tokens : CollectEndLog(t)
    \/ \E t \in Tokens : CollectPostLock(t)
    \/ \E t \in Tokens : CollectPostLogPipe(t)
    \/ \E t \in Tokens : CollectReturn(t)
    \/ \E t \in Tokens : ApplyLock(t)
    \/ \E t \in Tokens : ApplyLogUser(t)
    \/ \E t \in Tokens : ApplyReturn(t)

Spec == Init /\ [][Next]_vars

(***************************************************************************)
(* The event log under concurrent callers: App::log step by step,          *)
(* register_logs and unregister_logs.                                      *)
(***************************************************************************)
engineVars == <<users, pipes, pipeLock, req, inflight, ret>>

\* model.rs:220-223: the entry is built, with the elapsed time, before any lock.
AppendClock(t) ==
    /\ writer[t].pc = "idle"
    /\ nops < budget
    /\ writer' = [writer EXCEPT ![t] =
                     [pc |-> "lock_senders",
                      entry |-> Entry(clock, CollectEnd(t), nextSeq)]]
    /\ nextSeq' = nextSeq + 1
    /\ nops' = nops + 1
    /\ UNCHANGED <<appVars, engineVars, log_senders, sendersLock, history, chan, sub,
                   clock>>

\* Who holds log_senders once the for loop of log is over: the guard `senders`
\* lives to the end of the function, so still the caller.
ReleasedAfterFanOut(t) == Free

HolderAfterFanOut(t) == t

\* model.rs:224-229: lock log_senders and send the entry on every channel.
AppendFanOut(t) ==
    /\ writer[t].pc = "lock_senders"
    /\ sendersLock = Free
    /\ sendersLock' = HolderAfterFanOut(t)
    /\ chan' = FanOut(chan, log_senders, writer[t].entry)
    /\ writer' = [writer EXCEPT ![t].pc = "lock_history"]
    /\ UNCHANGED <<appVars, engineVars, log_senders, history, nops, sub, clock, nextSeq>>

\* model.rs:230-231: lock history, push, return; both guards are dropped.
\* The bug of returning from log with log_senders still locked.
AppendPushKeepingSenders(t) ==
    /\ writer[t].pc = "lock_history"
    /\ history' = Append(history, writer[t].entry)
    /\ writer' = [writer EXCEPT ![t] = IdleWriter]
    /\ UNCHANGED <<appVars, engineVars, log_senders, sendersLock, chan, nops, sub, clock,
                   nextSeq>>

AppendPush(t) ==
    /\ writer[t].pc = "lock_history"
    /\ history' = Append(history, writer[t].entry)
    /\ sendersLock' = IF sendersLock = t THEN Free ELSE sendersLock
    /\ writer' = [writer EXCEPT ![t] = IdleWriter]
    /\ UNCHANGED <<appVars, engineVars, log_senders, chan, nops, sub, clock, nextSeq>>

\* model.rs:233-238: under the history lock, the whole history is sent on the channel.
RegisterReplay(c) ==
    /\ sub[c].pc = "new"
    /\ chan' = [chan EXCEPT ![c] = @ \o history]
    /\ sub' = [sub EXCEPT ![c].pc = "replayed", ![c].replayed = Len(history)]
    /\ UNCHANGED <<appVars, engineVars, log_senders, sendersLock, history, nops, writer,
                   clock, nextSeq>>

\* Registration that does not wait for log_senders.
RegisterPushUnlocked(c) ==
    /\ sub[c].pc = "replayed"
    /\ log_senders' = Append(log_senders, c)
    /\ sub' = [sub EXCEPT ![c].pc = "registered", ![c].registered_at = Len(history)]
    /\ UNCHANGED <<appVars, engineVars, sendersLock, history, chan, nops, writer, clock,
                   nextSeq>>

\* Registration that first sends what was appended since the replay.
RegisterPushCatchingUp(c) ==
    /\ sub[c].pc = "replayed"
    /\ sendersLock = Free
    /\ log_senders' = Append(log_senders, c)
    /\ chan' = [chan EXCEPT ![c] =
                   @ \o SubSeq(history, sub[c].replayed + 1, Len(history))]
    /\ sub' = [sub EXCEPT ![c].pc = "registered", ![c].registered_at = Len(history)]
    /\ UNCHANGED <<appVars, engineVars, sendersLock, history, nops, writer, clock,
                   nextSeq>>

\* model.rs:239: lock log_senders and push the sender.
RegisterPush(c) ==
    /\ sub[c].pc = "replayed"
    /\ sendersLock = Free
    /\ log_senders' = Append(log_senders, c)
    /\ sub' = [sub EXCEPT ![c].pc = "registered", ![c].registered_at = Len(history)]
    /\ UNCHANGED <<appVars, engineVars, sendersLock, history, chan, nops, writer, clock,
                   nextSeq>>

\* model.rs:241-246: lock log_senders and drop every sender of the channel. The
\* callers (server.rs:121-127, main.rs:88) call it once per channel, at any time
\* after the channel was made.
Unregister(c) ==
    /\ ~sub[c].unregistered
    /\ sendersLock = Free
    /\ log_senders' = SelectSeq(log_senders, LAMBDA s : s # c)
    /\ sub' = [sub EXCEPT ![c].unregistered = TRUE]
    /\ UNCHANGED <<appVars, engineVars, sendersLock, history, chan, nops, writer, clock,
                   nextSeq>>

\* Time passes: App.start.elapsed() grows.
Tick ==
    /\ clock < MaxClock
    /\ clock' = clock + 1
    /\ UNCHANGED <<appVars, engineVars, log_senders, sendersLock, history, chan, nops,
                   writer, sub, nextSeq>>

\* One pipe, open roster: the App the log is exercised on.
InitLog ==
    /\ \E cfg \in Configs :
           InitApp(cfg, <<>>,
                   [p \in 1..cfg.pipe_count |->
                       [value |-> cfg.min_value, base_delay |-> cfg.min_delay,
                        direction |-> "Up", modifiers |-> NoModifiers]])
    /\ InitIdle
    /\ InitNoRunner
    /\ budget = MaxAppends

NextLog ==
    \/ \E t \in Tokens : AppendClock(t)
    \/ \E t \in Tokens : AppendFanOut(t)
    \/ \E t \in Tokens : AppendPush(t)
    \/ \E c \in Chans : RegisterReplay(c)
    \/ \E c \in Chans : RegisterPush(c)
    \/ \E c \in Chans : Unregister(c)
    \/ Tick

SpecLog == InitLog /\ [][NextLog]_vars

(***************************************************************************)
(* One player alone (closed roster of one), for the properties of a        *)
(* sequence of operations.                                                 *)
(***************************************************************************)
InitSeq ==
    /\ \E cfg \in Configs :
           \E ps \in InitPipes(cfg) : InitApp(cfg, <<"alice">>, ps)
    /\ InitIdle
    /\ InitNoRunner
    /\ budget = MaxSeqOps

SpecSeq == InitSeq /\ [][Next]_vars

(***************************************************************************)
(* One player alone under every configuration of slow_uses, double_uses    *)
(* and min_uses from 0 (the fields are usize and are not validated).       *)
(***************************************************************************)
UsesConfigs ==
    {[BaseConfig EXCEPT !.slow_uses = s, !.double_uses = d, !.min_uses = m] :
        s \in 0..MaxUses, d \in 0..MaxUses, m \in 0..MaxUses}

InitUses ==
    /\ \E cfg \in UsesConfigs :
           \E ps \in InitPipes(cfg) :
               /\ \A p \in DOMAIN ps :
                      ps[p].base_delay = cfg.min_delay /\ ps[p].direction = "Up"
               /\ InitApp(cfg, <<"alice">>, ps)
    /\ InitIdle
    /\ InitNoRunner
    /\ budget = MaxUsesOps

SpecUses == InitUses /\ [][Next]_vars

(***************************************************************************)
(* The match runner: main.rs run (register the log sink, server::run,      *)
(* unregister, join the sink, results) and server::run (start the          *)
(* transport, race it against the deadline, stop it). The transport, an    *)
(* actix HttpServer, is taken by its contract: while running it hands      *)
(* requests to the App; asked to stop gracefully, or stopping on a signal, *)
(* it takes no new request and is stopped once the operations in flight    *)
(* have returned.                                                          *)
(***************************************************************************)
allButRunner ==
    <<config, allow_unknown_users, roster, budget, users, pipes, pipeLock,
      log_senders, sendersLock, history, chan, req, inflight, nops, ret, writer,
      sub, clock, nextSeq>>

\* main.rs:60: register_logs for the sink's sender, before the transport exists.
RunRegister ==
    /\ runner.pc = "register"
    /\ RegisterReplay(Sink) \/ RegisterPush(Sink)

\* main.rs:61: File::create fails and run returns the error.
RunFileCreateFails ==
    /\ runner.pc = "register"
    /\ sub[Sink].pc = "registered"
    /\ runner' = [runner EXCEPT !.pc = "failed"]
    /\ UNCHANGED allButRunner

\* main.rs:61-80: the file is created and the sink task spawned.
RunSpawnSink ==
    /\ runner.pc = "register"
    /\ sub[Sink].pc = "registered"
    /\ runner' = [runner EXCEPT !.pc = "bind", !.sink = "running"]
    /\ UNCHANGED allButRunner

\* server.rs:208-209: bind fails and server::run, then run, return the error.
RunBindFails ==
    /\ runner.pc = "bind"
    /\ runner' = [runner EXCEPT !.pc = "failed"]
    /\ UNCHANGED allButRunner

\* server.rs:194-212: the server is built, bound, run and spawned; then the select.
RunServe ==
    /\ runner.pc = "bind"
    /\ runner' = [runner EXCEPT !.pc = "select", !.transport = "running"]
    /\ UNCHANGED allButRunner

\* server.rs:58-94: the running transport hands a request to the App.
Serve ==
    /\ runner.transport = "running"
    /\ Start

\* A step of the operation of token t that is under way.
OpStep(t) ==
    \/ PipeValueRead(t)
    \/ CollectPreLock(t)
    \/ CollectPreLog(t)
    \/ CollectStartLog(t)
    \/ CollectEndLog(t)
    \/ CollectPostLock(t)
    \/ CollectPostLogPipe(t)
    \/ CollectReturn(t)
    \/ ApplyLock(t)
    \/ ApplyLogUser(t)
    \/ ApplyReturn(t)

\* The transport stops on its own (a signal) before any deadline: no new request.
ExternalStop ==
    /\ runner.pc = "select"
    /\ runner.transport = "running"
    /\ runner' = [runner EXCEPT !.transport = "stopping"]
    /\ UNCHANGED allButRunner

\* server_future.await is over: the transport has fully stopped.
\* The bug of not waiting for the transport.
TransportNotAwaited(r) == TRUE

TransportStopped(r) == r.transport = "stopped"

\* server.rs:214 and 219-222: the sleep wins the select; server_handle.stop(true).
Deadline ==
    /\ runner.pc = "select"
    /\ runner.timed
    /\ runner.transport # "stopped"
    /\ runner' = [runner EXCEPT !.pc = "stopping", !.transport = "stopping",
                                 !.deadline = TRUE,
                                 !.pending = {t \in Tokens : InFlight(t)}]
    /\ UNCHANGED allButRunner

\* The stopping transport has no operation in flight any more: it is stopped.
TransportDrains ==
    /\ runner.transport = "stopping"
    /\ \A t \in Tokens : ~InFlight(t)
    /\ runner' = [runner EXCEPT !.transport = "stopped"]
    /\ UNCHANGED allButRunner

\* server.rs:215-218, 222, 227, 230-232: the server future is done; Ok(state).
ServeReturn ==
    /\ runner.pc \in {"select", "stopping"}
    /\ TransportStopped(runner)
    /\ runner' = [runner EXCEPT !.pc = "served"]
    /\ UNCHANGED allButRunner

\* main.rs:88: unregister_logs for the sink's sender.
RunUnregister ==
    /\ runner.pc = "served"
    /\ runner.save_log
    /\ Unregister(Sink)

\* main.rs:89: the last sender is dropped, which closes the channel.
RunDropSender ==
    /\ runner.pc = "served"
    /\ runner.save_log
    /\ sub[Sink].unregistered
    /\ runner' = [runner EXCEPT !.pc = "join", !.closed = TRUE]
    /\ UNCHANGED allButRunner

\* main.rs:67-77: the sink takes the next entry of its channel and writes it.
SinkWrites ==
    /\ runner.sink = "running"
    /\ runner.sunk < Len(chan[Sink])
    /\ runner' = [runner EXCEPT !.sunk = @ + 1]
    /\ UNCHANGED allButRunner

\* main.rs:67 and 78: the channel is closed and empty, next() is None, the task ends.
SinkFinishes ==
    /\ runner.sink = "running"
    /\ runner.closed
    /\ runner.sunk = Len(chan[Sink])
    /\ runner' = [runner EXCEPT !.sink = "finished"]
    /\ UNCHANGED allButRunner

\* task.await is over: the sink task has finished.
\* The bug of not waiting for the sink.
SinkNotAwaited(r) == TRUE

SinkFinished(r) == r.sink = "finished"

\* main.rs:90-92: task.await.
RunJoinSink ==
    /\ runner.pc = "join"
    /\ SinkFinished(runner)
    /\ runner' = [runner EXCEPT !.pc = "joined"]
    /\ UNCHANGED allButRunner

\* main.rs:95: app.results(), which waits for every player's lock.
RunResults ==
    /\ runner.pc = (IF runner.save_log THEN "joined" ELSE "served")
    /\ \A t \in DOMAIN users : users[t].lock = Free
    /\ runner' = [runner EXCEPT !.pc = "done", !.snapshot = results(users)]
    /\ UNCHANGED allButRunner

\* run starts after App::init: with or without --save-log, with or without time_to_run
\* (a deadline of any length, zero included: it may fire at once).
InitRun ==
    /\ \E cfg \in Configs :
           \E ps \in InitPipes(cfg) :
               /\ \A p \in DOMAIN ps :
                      ps[p].base_delay = cfg.min_delay /\ ps[p].direction = "Up"
               /\ InitApp(cfg, <<>>, ps)
    /\ InitIdle
    /\ budget = MaxRunOps
    /\ \E save_log \in BOOLEAN, timed \in BOOLEAN :
           runner = [NoRunner EXCEPT !.pc = IF save_log THEN "register" ELSE "bind",
                                     !.save_log = save_log, !.timed = timed]

NextRun ==
    \/ RunRegister
    \/ RunFileCreateFails
    \/ RunSpawnSink
    \/ RunBindFails
    \/ RunServe
    \/ Serve
    \/ \E t \in Tokens : OpStep(t)
    \/ ExternalStop
    \/ Deadline
    \/ TransportDrains
    \/ ServeReturn
    \/ RunUnregister
    \/ RunDropSender
    \/ SinkWrites
    \/ SinkFinishes
    \/ RunJoinSink
    \/ RunResults

SpecRun == InitRun /\ [][NextRun]_vars

(***************************************************************************)
(* server::run alone, as tests::test_run calls it: no log sink, and the    *)
(* run is over when server::run returns.                                   *)
(***************************************************************************)
InitServe ==
    /\ \E cfg \in Configs :
           \E ps \in InitPipes(cfg) :
               /\ \A p \in DOMAIN ps :
                      ps[p].base_delay = cfg.min_delay /\ ps[p].direction = "Up"
               /\ InitApp(cfg, <<>>, ps)
    /\ InitIdle
    /\ budget = MaxRunOps
    /\ \E timed \in BOOLEAN :
           runner = [NoRunner EXCEPT !.pc = "bind", !.timed = timed]

NextServe ==
    \/ RunBindFails
    \/ RunServe
    \/ Serve
    \/ \E t \in Tokens : OpStep(t)
    \/ ExternalStop
    \/ Deadline
    \/ TransportDrains
    \/ ServeReturn

\* The timer fires, the runtime runs every task that can go on, and every sleep ends.
FairServe ==
    /\ WF_vars(Deadline)
    /\ WF_vars(TransportDrains)
    /\ WF_vars(ServeReturn)
    /\ \A t \in Tokens : WF_vars(OpStep(t))

SpecServe == InitServe /\ [][NextServe]_vars /\ FairServe

(***************************************************************************)
(* Every lock of App at once: operations, calls of log by other tasks, a   *)
(* log channel that is registered and unregistered, and App::results run   *)
(* while requests are served. results is taken step by step: it holds the  *)
(* lock of `users` while it awaits the lock of each user in turn. The lock *)
(* of `history` is taken and released within one step wherever it is used  *)
(* (model.rs:230 and 233-238: nothing awaited under it can suspend, the    *)
(* channels being unbounded), so no step starts with it held.              *)
(***************************************************************************)
\* model.rs:254: the user results awaits next. The HashMap's order is arbitrary and
\* fixed.
NextUser(pending) == CHOOSE t \in pending : TRUE

\* model.rs:254: results locks `users` and starts to iterate over it.
ResultsLock ==
    /\ runner.pc = "off"
    /\ runner' = [runner EXCEPT !.pc = "results", !.pending = DOMAIN users]
    /\ UNCHANGED allButRunner

\* model.rs:255: await the user's lock, read the score, release the lock.
ResultsRead ==
    LET t == NextUser(runner.pending) IN
    /\ runner.pc = "results"
    /\ runner.pending # {}
    /\ users[t].lock = Free
    /\ runner' = [runner EXCEPT !.pending = @ \ {t},
                                !.snapshot = MapInsert(@, t, users[t].score)]
    /\ UNCHANGED allButRunner

\* model.rs:257: the iteration is over; results returns and `users` is released.
ResultsReturn ==
    /\ runner.pc = "results"
    /\ runner.pending = {}
    /\ runner' = [runner EXCEPT !.pc = "done"]
    /\ UNCHANGED allButRunner

\* model.rs:279: try_lock_user awaits the lock of `users`, which results may hold.
StartUnderRegistry ==
    /\ runner.pc # "results"
    /\ Start

\* The task whose calls of log are taken step by step.
LogTask == "alice"

\* One pipe and a closed roster of two. The log channel either was registered and
\* unregistered before the first request, or is yet to be registered, in runs of
\* one operation fewer.
InitLocks ==
    /\ \E cfg \in Configs :
           \E ps \in InitPipes(cfg) :
               /\ \A p \in DOMAIN ps :
                      /\ ps[p].base_delay = cfg.min_delay
                      /\ ps[p].direction = "Up"
                      /\ ps[p].value = cfg.min_value
               /\ InitApp(cfg, <<"alice", "bob">>, ps)
    /\ req = [t \in Tokens |-> IdleReq]
    /\ inflight = [t \in Tokens |-> 0]
    /\ nops = 0
    /\ ret = NoRet
    /\ writer = [t \in Tokens |-> IdleWriter]
    /\ InitNoRunner
    /\ \E early \in BOOLEAN :
           /\ budget = (IF early THEN MaxLockOps ELSE MaxLockOps - 1)
           /\ sub = [c \in Chans |->
                        IF early /\ c = Sink
                        THEN [pc |-> "registered", replayed |-> Len(history),
                              registered_at |-> Len(history), unregistered |-> TRUE]
                        ELSE NewSub]
           /\ chan = [c \in Chans |-> IF early /\ c = Sink THEN history ELSE <<>>]

NextLocks ==
    \/ StartUnderRegistry
    \/ \E t \in Tokens : OpStep(t)
    \/ AppendClock(LogTask)
    \/ AppendFanOut(LogTask)
    \/ AppendPush(LogTask)
    \/ RegisterReplay(Sink)
    \/ RegisterPush(Sink)
    \/ Unregister(Sink)
    \/ ResultsLock
    \/ ResultsRead
    \/ ResultsReturn

\* The runtime runs every task that can go on, and every sleep ends.
FairLocks ==
    /\ \A t \in Tokens : WF_vars(OpStep(t))
    /\ WF_vars(AppendFanOut(LogTask))
    /\ WF_vars(AppendPush(LogTask))
    /\ WF_vars(RegisterPush(Sink))
    /\ WF_vars(ResultsRead)
    /\ WF_vars(ResultsReturn)

SpecLocks == InitLocks /\ [][NextLocks]_vars /\ FairLocks

(***************************************************************************)
(* Properties.                                                             *)
(***************************************************************************)

\* C1: in every reachable state every pipe's value lies in [min_value, max_value].
ValueInRange ==
    \A p \in DOMAIN pipes :
        /\ config.min_value <= pipes[p].value
        /\ pipes[p].value <= config.max_value

\* C1 witness: a collect has just advanced an Up pipe from max_value round to min_value.
WrappedUpToMin ==
    \E t \in Tokens :
        /\ req[t].pc = "c_postlog1"
        /\ pipes[req[t].pipe].direction = "Up"
        /\ pipes[req[t].pipe].value = config.min_value
        /\ config.min_value < config.max_value

\* C2: the post-wait step of a collect moves the value by exactly one step, wrapping:
\* Up takes v < max to v + 1 and max to min; Down takes v > min to v - 1 and min to max.
CollectAdvancesByOne ==
    [][\A t \in Tokens :
          (req[t].pc = "c_post" /\ req'[t].pc = "c_postlog1") =>
              LET p == req[t].pipe
                  v == pipes[p].value
              IN pipes'[p].value =
                     IF pipes[p].direction = "Up"
                     THEN (IF v < config.max_value THEN v + 1 ELSE config.min_value)
                     ELSE (IF v > config.min_value THEN v - 1 ELSE config.max_value)]_vars

\* C2 witness: a collect has just advanced a Down pipe from min_value round to max_value.
WrappedDownToMax ==
    \E t \in Tokens :
        /\ req[t].pc = "c_postlog1"
        /\ pipes[req[t].pipe].direction = "Down"
        /\ pipes[req[t].pipe].value = config.max_value
        /\ config.min_value < config.max_value

\* C3: a token never has two operations past try_lock_user at once, and its lock is
\* held for as long as its operation has not returned, the suspension included.
OneOperationPerPlayer ==
    \A t \in Tokens :
        /\ inflight[t] <= 1
        /\ InFlight(t) => (t \in DOMAIN users /\ users[t].lock = Held /\ inflight[t] = 1)

\* C3 witness: a collect is suspended in its wait and holds its player's lock.
SuspendedHoldingLock ==
    \E t \in Tokens :
        /\ req[t].pc = "c_sleep"
        /\ users[t].lock = Held
        /\ inflight[t] = 1

\* What a refused request leaves alone: pipes, players, the log, the operations under way.
RefusalChangesNothing ==
    /\ pipes' = pipes
    /\ pipeLock' = pipeLock
    /\ users' = users
    /\ history' = history
    /\ chan' = chan
    /\ req' = req
    /\ inflight' = inflight

\* C4: while an operation of token t is under way no second one of t gets past
\* try_lock_user, and a request of t that arrives then is refused with UserBusy in that
\* very step, with no pipe, score, log or pending operation changed.
BusyRefusedAtOnce ==
    [][\A t \in Tokens :
          InFlight(t) =>
              /\ inflight'[t] <= inflight[t]
              /\ (ret'.tok = t /\ ret'.kind = "none" /\ ret'.res # "none") =>
                     (ret'.res = "UserBusy" /\ RefusalChangesNothing)]_vars

\* C4 witness: a request was refused with UserBusy while its token's operation sleeps.
RefusedWhileSleeping ==
    /\ ret.res = "UserBusy"
    /\ req[ret.tok].pc \in {"c_sleep", "pv_sleep"}

\* C5: a player's lock is held only while an operation of that player is under way, so
\* UserBusy is only ever returned to a token whose earlier operation has not returned.
LockFreeAfterReturn ==
    /\ \A t \in DOMAIN users : users[t].lock = Held => InFlight(t)
    /\ ret.res = "UserBusy" => InFlight(ret.tok)

\* C5 witness: an operation has just failed with ModifierAlreadyApplied and its player's
\* lock is free again.
FailedAndUnlocked ==
    /\ ret.res = "ModifierAlreadyApplied"
    /\ users[ret.tok].lock = Free
    /\ ~InFlight(ret.tok)

\* The cost and the uses the configuration gives a modifier.
CostOf(m) ==
    CASE m = "Slow" -> config.slow_cost
      [] m = "Double" -> config.double_cost
      [] m = "Min" -> config.min_cost
      [] m = "Shuffle" -> config.shuffle_cost
      [] m = "Reverse" -> config.reverse_cost

UsesOf(m) ==
    CASE m = "Slow" -> config.slow_uses
      [] m = "Double" -> config.double_uses
      [] m = "Min" -> config.min_uses

\* The step in which apply_modifier of token t checks and acts (it leaves "a_lock").
ApplyDecides(t) == req[t].pc = "a_lock" /\ req'[t].pc # "a_lock"

\* C6: for K in {Slow, Double, Min} and a player who can pay: on a pipe where K is active
\* apply_modifier fails with ModifierAlreadyApplied and leaves the pipe (K's counter
\* included), the score and the log as they were; on a pipe where K is not active (never
\* applied, or all its uses consumed) it succeeds and installs K with the configured uses.
StackingOnlyWhenAbsent ==
    [][\A t \in Tokens :
          (/\ ApplyDecides(t)
           /\ req[t].mod \in Stacking
           /\ users[t].score >= CostOf(req[t].mod)) =>
              LET p == req[t].pipe
                  k == req[t].mod
              IN IF k \in DOMAIN pipes[p].modifiers
                 THEN /\ ret'.tok = t
                      /\ ret'.res = "ModifierAlreadyApplied"
                      /\ pipes' = pipes
                      /\ users'[t].score = users[t].score
                      /\ history' = history
                 ELSE /\ req'[t].pc = "a_log1"
                      /\ k \in DOMAIN pipes'[p].modifiers
                      /\ pipes'[p].modifiers[k] = UsesOf(k)]_vars

\* The log shows modifier k on pipe p at entry i.
LoggedWith(i, p, k) ==
    /\ history[i].msg.type = "UpdatePipe"
    /\ history[i].msg.id = p
    /\ k \in DOMAIN history[i].msg.state.modifiers

\* The log shows pipe p without modifier k at entry i.
LoggedWithout(i, p, k) ==
    /\ history[i].msg.type = "UpdatePipe"
    /\ history[i].msg.id = p
    /\ k \notin DOMAIN history[i].msg.state.modifiers

\* C6 witness: a stacking modifier is installed again with its full uses after the log
\* showed it on the pipe and then, its uses consumed, gone from the pipe.
ReinstalledAfterExhaustion ==
    \E t \in Tokens :
        /\ req[t].pc = "a_log1"
        /\ req[t].mod \in Stacking
        /\ pipes[req[t].pipe].modifiers[req[t].mod] = UsesOf(req[t].mod)
        /\ \E i, j \in 1..Len(history) :
              /\ i < j
              /\ LoggedWith(i, req[t].pipe, req[t].mod)
              /\ LoggedWithout(j, req[t].pipe, req[t].mod)

\* C7: apply_modifier changes its player's score in its deciding step only: by exactly
\* minus the configured cost when it goes ahead, and it goes ahead only if the score
\* covers the cost; with score < cost it fails with NotEnoughScore and the players, the
\* pipes and the log stay as they were.
DebitsExactlyCost ==
    [][\A t \in Tokens :
          req[t].kind = "apply_modifier" =>
              LET p == req[t].pipe
                  cost == CostOf(req[t].mod)
              IN IF ~ApplyDecides(t)
                 THEN t \in DOMAIN users' /\ users'[t].score = users[t].score
                 ELSE IF users[t].score < cost
                 THEN /\ ret'.tok = t
                      /\ ret'.res = "NotEnoughScore"
                      /\ \A u \in DOMAIN users : users'[u].score = users[u].score
                      /\ pipes' = pipes
                      /\ history' = history
                 ELSE \/ /\ req'[t].pc = "a_log1"
                         /\ users'[t].score = users[t].score - cost
                      \/ /\ ret'.res = "ModifierAlreadyApplied"
                         /\ users'[t].score = users[t].score]_vars

\* C7 witness: an apply_modifier of positive cost has gone ahead and its player paid.
PaidPositiveCost ==
    \E t \in Tokens :
        /\ req[t].pc = "a_log1"
        /\ CostOf(req[t].mod) > 0
        /\ history[Len(history)].msg.type = "UpdateUser"
        /\ history[Len(history)].msg.user = t
        /\ history[Len(history)].msg.state.score = users[t].score + CostOf(req[t].mod)

\* The positions of the history whose entry channel c was never sent.
Missing(c) ==
    {a \in 1..Len(history) :
        \A i \in 1..Len(chan[c]) : chan[c][i].seq # history[a].seq}

\* The positions appended between the replay for channel c and its registration.
Window(c) == (sub[c].replayed + 1)..sub[c].registered_at

\* C8: what a channel is sent, replay then forwarding, has no entry twice and has its
\* entries in the order the history has them.
NoDuplicateInHistoryOrder ==
    \A c \in Chans :
        \A i, j \in 1..Len(chan[c]) :
            i < j =>
                /\ chan[c][i].seq # chan[c][j].seq
                /\ \A a, b \in 1..Len(history) :
                       (history[a].seq = chan[c][i].seq /\ history[b].seq = chan[c][j].seq)
                           => a < b

\* C8 witness: a channel got the replay and then two forwarded entries, all in the history.
ReplayedThenForwarded ==
    \E c \in Chans :
        /\ sub[c].replayed >= 1
        /\ Len(chan[c]) >= sub[c].replayed + 2
        /\ Missing(c) = {}
        /\ \A t \in Tokens : writer[t].pc = "idle"

\* C9: once a channel is registered, the entries appended between its replay and its
\* registration are in the history and are never sent on it; while it stays registered
\* they are the only ones it lacks.
WindowIsNeverDelivered ==
    \A c \in Chans :
        sub[c].pc = "registered" =>
            /\ Window(c) \subseteq Missing(c)
            /\ (c \in Range(log_senders) => Missing(c) = Window(c))

\* C9 witness: a registered channel lacks an entry that was appended in its window.
MissedInWindow ==
    \E c \in Chans :
        /\ sub[c].pc = "registered"
        /\ c \in Range(log_senders)
        /\ Window(c) # {}
        /\ Missing(c) # {}

\* C10: with a closed roster the players are at every step those of the roster, no
\* operation of a token outside it gets under way, and a request of such a token is
\* refused with UserNotFound with nothing changed.
ClosedRosterRefuses ==
    [][~allow_unknown_users =>
          /\ DOMAIN users' = Range(roster)
          /\ \A t \in Tokens \ Range(roster) :
                /\ inflight'[t] = 0
                /\ req'[t] = IdleReq
                /\ (ret'.tok = t /\ ret'.res # "none") =>
                       (ret'.res = "UserNotFound" /\ RefusalChangesNothing)]_vars

\* C10 witness: under a closed roster a token outside it was refused with UserNotFound.
OutsiderRefused ==
    /\ ~allow_unknown_users
    /\ ret.res = "UserNotFound"
    /\ ret.tok \notin Range(roster)
    /\ DOMAIN users = Range(roster)

\* A request of token t was handled in this step: it was refused before any work, or
\* its operation got under way.
Requested(t) ==
    \/ ret'.tok = t /\ ret'.kind = "none" /\ ret'.res # "none"
    \/ inflight'[t] > inflight[t]

\* C11: no player ever leaves the snapshot; under an open roster a request of a token
\* puts the token in the snapshot whatever the outcome, is never refused as unknown,
\* and, when the token was unseen, creates the player with score 0 and goes on as for a
\* known idle player (under way, or PipeNotFound); a known player's score is not touched
\* by the lock acquisition.
OpenRosterCreates ==
    [][/\ DOMAIN results(users) \subseteq DOMAIN results(users')
       /\ allow_unknown_users =>
              \A t \in Tokens :
                  Requested(t) =>
                      /\ t \in DOMAIN results(users')
                      /\ ret'.res # "UserNotFound"
                      /\ t \notin DOMAIN users =>
                             /\ results(users')[t] = 0
                             /\ inflight'[t] = 1 \/ ret'.res = "PipeNotFound"
                      /\ t \in DOMAIN users =>
                             results(users')[t] = results(users)[t]]_vars

\* C11 witness: under an open roster the only request so far named no pipe and failed,
\* and its token is in the snapshot with score 0.
CreatedByFailedRequest ==
    /\ allow_unknown_users
    /\ nops = 0
    /\ ret.res = "PipeNotFound"
    /\ DOMAIN results(users) = {ret.tok}
    /\ results(users)[ret.tok] = 0

\* The post-wait step of the collect of token t: it locks the pipe again and awards.
CollectAwards(t) == req[t].pc = "c_post" /\ req'[t].pc = "c_postlog1"

\* C12: an apply_modifier of Double that goes ahead installs Double with double_uses and
\* debits double_cost; the entry then stays as it is until a collect awards on that pipe;
\* and with double_uses = 1 a collect that awards on a pipe with Double and without Min
\* is awarded twice the value the pipe has at that step, credits it to its player,
\* returns it, and leaves the pipe without Double.
DoubleDoublesOnce ==
    [][\A t \in Tokens :
          LET p == req[t].pipe IN
          /\ (ApplyDecides(t) /\ req[t].mod = "Double" /\ req'[t].pc = "a_log1") =>
                 /\ pipes'[p].modifiers["Double"] = config.double_uses
                 /\ users'[t].score = users[t].score - config.double_cost
          /\ \A q \in DOMAIN pipes :
                 (/\ "Double" \in DOMAIN pipes[q].modifiers
                  /\ ~\E u \in Tokens : CollectAwards(u) /\ req[u].pipe = q) =>
                     /\ "Double" \in DOMAIN pipes'[q].modifiers
                     /\ pipes'[q].modifiers["Double"] = pipes[q].modifiers["Double"]
          /\ (/\ CollectAwards(t)
              /\ config.double_uses = 1
              /\ "Double" \in DOMAIN pipes[p].modifiers
              /\ "Min" \notin DOMAIN pipes[p].modifiers) =>
                 /\ req'[t].score = 2 * pipes[p].value
                 /\ users'[t].score = users[t].score + 2 * pipes[p].value
                 /\ "Double" \notin DOMAIN pipes'[p].modifiers
          /\ (req[t].pc = "c_postlog2" /\ req'[t].pc = "idle") =>
                 (ret'.tok = t /\ ret'.res = "Ok" /\ ret'.value = req[t].score)]_vars

\* C12 witness: a collect has just been awarded twice the value its pipe was logged
\* with, Double on it and no Min, before the wait, and the pipe has no Double now.
DoubledAward ==
    \E t \in Tokens :
        LET n == Len(history) IN
        /\ req[t].pc = "c_postlog1"
        /\ n >= 3
        /\ LoggedWith(n - 2, req[t].pipe, "Double")
        /\ LoggedWithout(n - 2, req[t].pipe, "Min")
        /\ history[n - 1].msg.type = "CollectStart"
        /\ history[n].msg = CollectEnd(t)
        /\ req[t].score = 2 * history[n - 2].msg.state.value
        /\ req[t].score > 0
        /\ "Double" \notin DOMAIN pipes[req[t].pipe].modifiers

\* The award a pipe in a given state yields: Min wins over Double.
AwardFrom(cfg, pipe) ==
    IF "Min" \in DOMAIN pipe.modifiers THEN cfg.min_value
    ELSE IF "Double" \in DOMAIN pipe.modifiers THEN 2 * pipe.value
    ELSE pipe.value

Suspended(t) == req[t].pc \in {"c_sleep", "pv_sleep"}

\* C14: an operation suspended in its wait holds its player's lock and no pipe's lock.
NoPipeLockWhileSuspended ==
    \A t \in Tokens :
        Suspended(t) =>
            /\ users[t].lock = Held
            /\ \A p \in DOMAIN pipeLock : pipeLock[p] # t

\* C14 witness: while a collect is suspended, another player's collect on the same pipe
\* has started (its five events follow the CollectStart of the suspended one) and has
\* returned Ok.
CompletedDuringWait ==
    \E a, b \in Tokens :
        LET n == Len(history) IN
        /\ a # b
        /\ req[a].pc = "c_sleep"
        /\ ret = [tok |-> b, kind |-> "collect", res |-> "Ok", value |-> ret.value]
        /\ n >= 6
        /\ history[n - 5].msg = CollectStart(a, req[a].pipe, req[a].delay)
        /\ history[n - 4].msg.type = "UpdatePipe"
        /\ history[n - 4].msg.id = req[a].pipe
        /\ history[n - 3].msg = CollectStart(b, req[a].pipe, history[n - 3].msg.delay)
        /\ history[n - 2].msg = CollectEnd(b)
        /\ history[n].msg.type = "UpdateUser"
        /\ history[n].msg.user = b

\* C15: every entry of a pipe's modifiers has at least one use left, and no operation
\* ends in the failed assertion of use_modifier.
ModifierSlotsPositive ==
    /\ \A p \in DOMAIN pipes :
           \A k \in DOMAIN pipes[p].modifiers : pipes[p].modifiers[k] >= 1
    /\ ret.res # "Panic"

\* The configuration awards and charges nothing negative.
NothingNegativeConfigured ==
    /\ config.min_value >= 0
    /\ \A m \in Modifiers : CostOf(m) >= 0

\* C16: when no award and no cost is negative, no player's score is ever negative, and
\* an apply_modifier holds its player's lock from before its check to its return.
ScoreNeverNegative ==
    NothingNegativeConfigured =>
        /\ \A t \in DOMAIN users : users[t].score >= 0
        /\ \A t \in Tokens :
               req[t].kind = "apply_modifier" => users[t].lock = Held

\* C16 witness: an apply_modifier of positive cost has just debited a player who had
\* exactly the cost, leaving score 0.
SpentToZero ==
    \E t \in Tokens :
        /\ NothingNegativeConfigured
        /\ req[t].pc = "a_log1"
        /\ CostOf(req[t].mod) > 0
        /\ users[t].score = 0
        /\ users[t].lock = Held

\* C17: a step changes the score of a token u only if it is the post-wait step of u's
\* own collect, which adds the award later returned to the caller, or the deciding step
\* of u's own apply_modifier going ahead, which subtracts the cost; a player who
\* appears starts at 0. So no operation of a token changes another token's score.
ScoreChangedByOwnerOnly ==
    [][\A u \in DOMAIN users' :
          IF u \notin DOMAIN users
          THEN users'[u].score = 0
          ELSE users'[u].score # users[u].score =>
                  \/ /\ CollectAwards(u)
                     /\ users'[u].score = users[u].score + req'[u].score
                     /\ \A w \in DOMAIN users \ {u} : users'[w].score = users[w].score
                  \/ /\ ApplyDecides(u)
                     /\ req'[u].pc = "a_log1"
                     /\ users'[u].score = users[u].score - CostOf(req[u].mod)
                     /\ \A w \in DOMAIN users \ {u} : users'[w].score = users[w].score]_vars

\* C17 witness: a collect has just credited its player a positive award while another
\* player, with an operation of its own under way, still has the score 0 it started with.
CreditedBesideAnother ==
    \E u, w \in Tokens :
        /\ u # w
        /\ req[u].pc = "c_postlog1"
        /\ req[u].score > 0
        /\ users[u].score = req[u].score
        /\ InFlight(w)
        /\ users[w].score = 0

\* The step appends to the history one entry, carrying msg.
Appends(msg) ==
    /\ Len(history') = Len(history) + 1
    /\ SubSeq(history', 1, Len(history)) = history
    /\ history'[Len(history')].msg = msg

\* C20: a collect of token t on pipe p goes through its steps in one order and appends
\* at them, in turn: nothing when it starts and when it locks the pipe (where the delay
\* is base_delay, doubled if Slow was there); UpdatePipe(p) with the pipe after the Slow
\* handling, Slow or no Slow; CollectStart(t, p, delay); after the wait CollectEnd(t);
\* nothing when it locks the pipe again; UpdatePipe(p) with the advanced pipe; and, as
\* it returns Ok, UpdateUser(t) with the credited score: five entries in all.
CollectLogsFiveInOrder ==
    [][\A t \in Tokens :
          LET p == req[t].pipe
              pc == req[t].pc
              pc2 == req'[t].pc
          IN
          /\ (pc = "idle" /\ req'[t].kind = "collect") =>
                 (pc2 = "c_pre" /\ history' = history)
          /\ (req[t].kind = "collect" /\ req'[t] # req[t]) =>
                 CASE pc = "c_pre" ->
                          /\ pc2 = "c_prelog"
                          /\ history' = history
                          /\ req'[t].delay =
                                 IF "Slow" \in DOMAIN pipes[p].modifiers
                                 THEN 2 * pipes[p].base_delay
                                 ELSE pipes[p].base_delay
                   [] pc = "c_prelog" ->
                          pc2 = "c_start" /\ Appends(UpdatePipe(p, pipes[p]))
                   [] pc = "c_start" ->
                          pc2 = "c_sleep" /\ Appends(CollectStart(t, p, req[t].delay))
                   [] pc = "c_sleep" ->
                          pc2 = "c_post" /\ Appends(CollectEnd(t))
                   [] pc = "c_post" ->
                          pc2 = "c_postlog1" /\ history' = history
                   [] pc = "c_postlog1" ->
                          pc2 = "c_postlog2" /\ Appends(UpdatePipe(p, pipes'[p]))
                   [] pc = "c_postlog2" ->
                          /\ pc2 = "idle"
                          /\ ret' = [tok |-> t, kind |-> "collect", res |-> "Ok",
                                      value |-> req[t].score]
                          /\ Appends(UpdateUser(t, [score |-> users'[t].score]))]_vars

\* C20 witness: a collect on a pipe without Slow has returned Ok and its five entries
\* are in the history in order, with another player's CollectStart between its
\* CollectStart and its CollectEnd.
FiveEventsInterleaved ==
    \E t \in Tokens :
        LET n == Len(history) IN
        /\ ret.tok = t /\ ret.kind = "collect" /\ ret.res = "Ok"
        /\ n >= 6
        /\ history[n].msg = UpdateUser(t, [score |-> users[t].score])
        /\ \E i1, i2, i3, i4 \in 1..(n - 1) :
               /\ i1 < i2 /\ i2 < i3 /\ i3 < i4
               /\ history[i1].msg.type = "UpdatePipe"
               /\ "Slow" \notin DOMAIN history[i1].msg.state.modifiers
               /\ history[i2].msg.type = "CollectStart"
               /\ history[i2].msg.user = t
               /\ history[i2].msg.pipe_id = history[i1].msg.id
               /\ history[i2].msg.delay = history[i1].msg.state.base_delay
               /\ history[i3].msg = CollectEnd(t)
               /\ history[i4].msg.type = "UpdatePipe"
               /\ history[i4].msg.id = history[i1].msg.id
               /\ \E j \in (i2 + 1)..(i3 - 1) :
                      /\ history[j].msg.type = "CollectStart"
                      /\ history[j].msg.user # t

\* The step in which run takes the final snapshot.
SnapshotTaken == runner.pc # "done" /\ runner'.pc = "done"

\* C18: the sink is registered before the transport starts; and the final snapshot is
\* taken only when the transport has stopped with no operation under way and, if a
\* sink was started, when its channel is unregistered and closed, its task finished,
\* and what it consumed is the whole history, entry for entry in the history's order;
\* the snapshot is then the players' scores.
SnapshotAfterShutdown ==
    [][/\ (runner.save_log /\ runner.transport # "off") =>
              (sub[Sink].pc = "registered" /\ runner.sink # "none")
       /\ SnapshotTaken =>
              /\ runner.transport = "stopped"
              /\ \A t \in Tokens : ~InFlight(t)
              /\ runner'.snapshot = results(users)
              /\ runner.save_log =>
                     /\ Sink \notin Range(log_senders)
                     /\ runner.closed
                     /\ runner.sink = "finished"
                     /\ runner.sunk = Len(history)
                     /\ SubSeq(chan[Sink], 1, runner.sunk) = history]_vars

\* C18 witness: the snapshot was taken, with a score in it that a collect earned, after
\* a sink consumed a history longer than the one App::init left.
SnapshotWithDrainedSink ==
    /\ runner.pc = "done"
    /\ runner.save_log
    /\ runner.sink = "finished"
    /\ runner.sunk = Len(history)
    /\ Len(history) >= Len(roster) + config.pipe_count + 5
    /\ \E t \in DOMAIN runner.snapshot : runner.snapshot[t] > 0

\* C19: when the deadline wins, the transport is told to stop and no operation is
\* touched; a transport that is not running starts no operation, and the ones under
\* way leave only by returning; server::run goes on from the stop only to return Ok,
\* and only once the transport has stopped with no operation under way; and with a
\* run duration configured server::run, once at its select, eventually returns.
DeadlineStopsGracefully ==
    /\ [][/\ (runner.pc = "select" /\ runner'.pc = "stopping") =>
                 (runner'.transport = "stopping" /\ req' = req /\ users' = users)
          /\ runner.transport # "running" =>
                 \A t \in Tokens :
                     /\ inflight'[t] <= inflight[t]
                     /\ (InFlight(t) /\ req'[t].pc = "idle") =>
                            (ret'.tok = t /\ ret'.res # "none")
          /\ (runner.pc = "stopping" /\ runner'.pc # "stopping") =>
                 /\ runner'.pc = "served"
                 /\ runner.transport = "stopped"
                 /\ \A t \in Tokens : ~InFlight(t)]_vars
    /\ (runner.timed /\ runner.pc = "select") ~> (runner.pc = "served")

\* C19 witness: server::run has returned after a deadline that found an operation
\* under way, which has since returned Ok.
ReturnedAfterDraining ==
    /\ runner.pc = "served"
    /\ runner.deadline
    /\ ret.tok \in runner.pending
    /\ ret.res = "Ok"
    /\ \A t \in Tokens : ~InFlight(t)

\* The step in which the call of log of token t sends its entry on the channels.
FansOut(t) == writer[t].pc = "lock_senders" /\ writer'[t].pc = "lock_history"

\* C21 as claimed: log has released log_senders when it goes on to lock history.
SendersReleasedBeforePush ==
    \A t \in Tokens : writer[t].pc = "lock_history" => sendersLock # t

\* C21 as the code has it: log holds log_senders from its fan-out until it has pushed
\* on history, one critical section inside the other, so between the fan-out and the
\* push of one call no other call fans out and no channel is registered or
\* unregistered (a replay, which needs only history, may run).
PushInsideSendersLock ==
    [][\A t \in Tokens :
          writer[t].pc = "lock_history" =>
              /\ sendersLock = t
              /\ writer'[t].pc = "lock_history" =>
                     /\ log_senders' = log_senders
                     /\ \A u \in Tokens : ~FansOut(u)]_vars

\* C21 witness: a call of log is between its fan-out and its push and holds
\* log_senders, while another call waits to fan out and a replayed channel waits to
\* be registered.
OthersWaitForPush ==
    \E t, u \in Tokens :
        \E c \in Chans :
            /\ writer[t].pc = "lock_history"
            /\ sendersLock = t
            /\ writer[u].pc = "lock_senders"
            /\ sub[c].pc = "replayed"

\* C22: once unregister_logs has returned for a channel, no fan-out of log sends
\* anything on it and what it was sent stays; and unregister_logs for a channel
\* that is not registered changes nothing of the log.
NoDeliveryAfterUnsubscribe ==
    [][\A c \in Chans :
          /\ sub[c].unregistered =>
                 /\ \A t \in Tokens : FansOut(t) => chan'[c] = chan[c]
                 /\ \A i \in 1..Len(chan[c]) :
                        i <= Len(chan'[c]) /\ chan'[c][i] = chan[c][i]
          /\ (~sub[c].unregistered /\ sub'[c].unregistered) =>
                 /\ chan' = chan
                 /\ history' = history
                 /\ c \notin Range(log_senders) => log_senders' = log_senders]_vars

\* The uses a modifier has left on a pipe (none when it is not in the map).
UsesLeft(pipe, m) == IF m \in DOMAIN pipe.modifiers THEN pipe.modifiers[m] ELSE 0

\* C23: the post-wait step of a collect on a pipe with Min awards min_value, credits
\* it and takes one use of Min; Double loses one use too when it is on the pipe and
\* is left as it is (absent) otherwise; and neither modifier changes in any other
\* way than by one use at that step.
DoubleBeforeMin ==
    [][\A t \in Tokens :
          LET p == req[t].pipe IN
          (CollectAwards(t) /\ "Min" \in DOMAIN pipes[p].modifiers) =>
              /\ req'[t].score = config.min_value
              /\ users'[t].score = users[t].score + config.min_value
              /\ UsesLeft(pipes'[p], "Min") = UsesLeft(pipes[p], "Min") - 1
              /\ IF "Double" \in DOMAIN pipes[p].modifiers
                 THEN UsesLeft(pipes'[p], "Double") = UsesLeft(pipes[p], "Double") - 1
                 ELSE "Double" \notin DOMAIN pipes'[p].modifiers]_vars

\* C23 witness: a collect on a pipe logged with both Double and Min, and a value of
\* at least 2, before the wait has just been awarded min_value (less than the value
\* and than twice min_value), and the pipe has neither modifier now.
MinAwardedWithDouble ==
    \E t \in Tokens :
        LET n == Len(history) IN
        /\ req[t].pc = "c_postlog1"
        /\ n >= 3
        /\ LoggedWith(n - 2, req[t].pipe, "Double")
        /\ LoggedWith(n - 2, req[t].pipe, "Min")
        /\ history[n - 2].msg.state.value >= 2
        /\ history[n].msg = CollectEnd(t)
        /\ req[t].score = config.min_value
        /\ req[t].score < 2 * config.min_value
        /\ "Double" \notin DOMAIN pipes[req[t].pipe].modifiers
        /\ "Min" \notin DOMAIN pipes[req[t].pipe].modifiers

\* The pre-wait step of the collect of token t: it locks the pipe and fixes the wait.
CollectFixesWait(t) == req[t].pc = "c_pre" /\ req'[t].pc = "c_prelog"

\* C24: the pre-wait step of a collect takes one use of Slow and fixes the wait at
\* twice the base_delay the pipe has at that step when Slow is on the pipe, and
\* leaves the pipe as it is and fixes the wait at that base_delay otherwise; the wait
\* of a collect never changes afterwards, whatever is applied to the pipe; the wait
\* logged with CollectStart is that one; and Slow loses a use on a pipe at no other
\* step than the pre-wait step of a collect on that pipe.
SlowConsumedBeforeWait ==
    [][/\ \A t \in Tokens :
             LET p == req[t].pipe IN
             /\ CollectFixesWait(t) =>
                    IF "Slow" \in DOMAIN pipes[p].modifiers
                    THEN /\ UsesLeft(pipes'[p], "Slow") = UsesLeft(pipes[p], "Slow") - 1
                         /\ req'[t].delay = 2 * pipes[p].base_delay
                    ELSE /\ pipes'[p] = pipes[p]
                         /\ req'[t].delay = pipes[p].base_delay
             /\ (req[t].pc \in {"c_prelog", "c_start", "c_sleep"}) =>
                    /\ req'[t].delay = req[t].delay
                    /\ req'[t].pc \in {"c_prelog", "c_start", "c_sleep", "c_post"}
             /\ (req[t].pc = "c_start" /\ req'[t].pc = "c_sleep") =>
                    Appends(CollectStart(t, p, req[t].delay))
       /\ \A q \in DOMAIN pipes :
             UsesLeft(pipes'[q], "Slow") < UsesLeft(pipes[q], "Slow") =>
                 \E u \in Tokens : CollectFixesWait(u) /\ req[u].pipe = q]_vars

\* C24 witness: a collect whose wait is over started on a pipe without Slow with the
\* wait base_delay, and during its wait Slow was applied to the pipe, which still has
\* all its uses.
SlowAppliedDuringWait ==
    \E t \in Tokens :
        LET p == req[t].pipe IN
        /\ req[t].pc = "c_post"
        /\ req[t].delay = pipes[p].base_delay
        /\ "Slow" \in DOMAIN pipes[p].modifiers
        /\ pipes[p].modifiers["Slow"] = config.slow_uses
        /\ \E i \in 2..Len(history) :
               /\ history[i].msg = CollectStart(t, p, req[t].delay)
               /\ LoggedWithout(i - 1, p, "Slow")

\* C25: no pipe's modifiers map ever holds Shuffle or Reverse; and an apply_modifier
\* of Shuffle or Reverse by a player who can pay for it goes ahead whatever the pipe
\* holds, Reverse inverting the direction and keeping base_delay, Shuffle setting
\* base_delay within [min_delay, max_delay] and keeping the direction, both leaving
\* the value and the modifiers map as they are; neither is ever refused with
\* ModifierAlreadyApplied.
OneShotModifiers ==
    /\ [](\A q \in DOMAIN pipes : DOMAIN pipes[q].modifiers \subseteq Stacking)
    /\ [][\A t \in Tokens :
             LET p == req[t].pipe
                 k == req[t].mod
             IN (ApplyDecides(t) /\ k \in {"Shuffle", "Reverse"}) =>
                    /\ ~(ret'.tok = t /\ ret'.res = "ModifierAlreadyApplied")
                    /\ users[t].score >= CostOf(k) =>
                           /\ req'[t].pc = "a_log1"
                           /\ pipes'[p].value = pipes[p].value
                           /\ pipes'[p].modifiers = pipes[p].modifiers
                           /\ IF k = "Reverse"
                              THEN /\ pipes'[p].direction # pipes[p].direction
                                   /\ pipes'[p].direction \in {"Up", "Down"}
                                   /\ pipes'[p].base_delay = pipes[p].base_delay
                              ELSE /\ pipes'[p].base_delay \in
                                          config.min_delay..config.max_delay
                                   /\ pipes'[p].direction = pipes[p].direction]_vars

\* C25 witness: Reverse has just been applied to a pipe for the second time in a
\* row: the pipe's direction is the inverse of the one it was last logged with, which
\* is the inverse of the one it was logged with before.
ReversedTwice ==
    \E t \in Tokens :
        LET p == req[t].pipe
            n == Len(history)
        IN
        /\ req[t].pc = "a_log1"
        /\ req[t].mod = "Reverse"
        /\ n >= 4
        /\ history[n].msg.type = "UpdatePipe"
        /\ history[n].msg.id = p
        /\ history[n].msg.state.direction # pipes[p].direction
        /\ history[n - 3].msg.type = "UpdatePipe"
        /\ history[n - 3].msg.id = p
        /\ history[n - 3].msg.state.direction = pipes[p].direction
        /\ history[n - 3].msg.state.value = pipes[p].value

\* A step of a task that is under way: of an operation, a call of log, a register_logs
\* or results.
TaskStep ==
    \/ \E t \in Tokens : OpStep(t)
    \/ AppendFanOut(LogTask)
    \/ AppendPush(LogTask)
    \/ RegisterPush(Sink)
    \/ ResultsRead
    \/ ResultsReturn

\* Some task is under way.
TaskUnderWay ==
    \/ \E t \in Tokens : InFlight(t)
    \/ \E t \in Tokens : writer[t].pc # "idle"
    \/ sub[Sink].pc = "replayed"
    \/ runner.pc = "results"

\* The operation of token t is at a step that awaits the lock of its pipe.
AwaitsPipe(t) == req[t].pc \in {"pv_sleep", "c_pre", "c_post", "a_lock"}

\* C26: whenever a task is under way some task can take a step; whoever holds a pipe's
\* lock is an operation on that pipe that holds its user's lock and awaits no pipe's
\* lock; whoever holds log_senders is a call of log that has only the push on history
\* left; results holds `users` only while it awaits users' locks; and, every task
\* that can go on being run, every operation under way returns, every call of log
\* returns, a register_logs that has replayed registers, and results returns.
DeadlockFree ==
    /\ [](/\ TaskUnderWay => ENABLED TaskStep
          /\ \A q \in DOMAIN pipes :
                 pipeLock[q] # Free =>
                     /\ InFlight(pipeLock[q])
                     /\ req[pipeLock[q]].pipe = q
                     /\ users[pipeLock[q]].lock # Free
                     /\ ~AwaitsPipe(pipeLock[q])
          /\ \A t \in Tokens : InFlight(t) => users[t].lock # Free
          /\ sendersLock # Free => writer[sendersLock].pc = "lock_history"
          /\ runner.pc = "results" => runner.pending \subseteq DOMAIN users)
    /\ \A t \in Tokens : InFlight(t) ~> ~InFlight(t)
    /\ \A t \in Tokens : (writer[t].pc # "idle") ~> (writer[t].pc = "idle")
    /\ (sub[Sink].pc = "replayed") ~> (sub[Sink].pc = "registered")
    /\ (runner.pc = "results") ~> (runner.pc = "done")

\* C26 witness: a chain of waits: results holds `users` and awaits the lock of a user
\* whose operation holds its pipe's lock and is about to log, while a call of log
\* holds log_senders, and the other user's request can only await `users`.
ChainOfWaits ==
    \E t \in Tokens, w \in Tokens :
        /\ runner.pc = "results"
        /\ t \in runner.pending
        /\ t = NextUser(runner.pending)
        /\ users[t].lock # Free
        /\ pipeLock[req[t].pipe] = t
        /\ req[t].pc \in {"c_prelog", "c_postlog1", "c_postlog2", "a_log1", "a_log2"}
        /\ sendersLock = w
        /\ writer[w].pc = "lock_history"
        /\ ~ENABLED StartUnderRegistry

\* The value a pipe has n steps in direction dir after the value v, with wraparound.
StepN(cfg, v, dir, n) ==
    LET range == cfg.max_value - cfg.min_value + 1
        off == IF dir = "Up" THEN n ELSE n * range - n
    IN cfg.min_value + ((v - cfg.min_value + off) % range)

\* The entries of the history that show pipe p.
Shown(p) ==
    {i \in 1..Len(history) : history[i].msg.type = "UpdatePipe" /\ history[i].msg.id = p}

\* The collects on pipe p that have been awarded: those that logged CollectStart, less
\* those still between that and their post-wait step.
Awarded(p) ==
    Cardinality({i \in 1..Len(history) :
                    /\ history[i].msg.type = "CollectStart"
                    /\ history[i].msg.pipe_id = p})
    - Cardinality({t \in Tokens :
                      req[t].pc \in {"c_sleep", "c_post"} /\ req[t].pipe = p})

\* Pipe p has never been reversed: it has the direction every entry shows it with.
NeverReversed(p) ==
    \A i \in Shown(p) : history[i].msg.state.direction = pipes[p].direction

\* C27: a pipe that was never reversed is, from the value App::init logged it with,
\* as many steps on as collects have been awarded on it, however they overlapped; no
\* stacking modifier has more uses left than it is installed with; and the post-wait
\* step of a collect takes the pipe's lock, awards from the pipe as it is at that
\* step, leaves it with another value, takes exactly one use of Double and of Min
\* where present, and is the only step that changes a value or takes such a use.
NoLostUpdate ==
    /\ [](\A p \in DOMAIN pipes :
              /\ NeverReversed(p) =>
                     LET first == CHOOSE i \in Shown(p) : \A j \in Shown(p) : i <= j
                     IN pipes[p].value =
                            StepN(config, history[first].msg.state.value,
                                  pipes[p].direction, Awarded(p))
              /\ \A m \in DOMAIN pipes[p].modifiers :
                     pipes[p].modifiers[m] \in 1..UsesOf(m))
    /\ [][/\ \A t \in Tokens :
                 LET p == req[t].pipe IN
                 CollectAwards(t) =>
                     /\ pipeLock[p] = Free
                     /\ pipeLock'[p] = t
                     /\ req'[t].score = AwardFrom(config, pipes[p])
                     /\ pipes'[p].value # pipes[p].value
                     /\ \A m \in {"Double", "Min"} :
                            UsesLeft(pipes'[p], m) =
                                IF m \in DOMAIN pipes[p].modifiers
                                THEN UsesLeft(pipes[p], m) - 1
                                ELSE 0
                     /\ \A u \in Tokens \ {t} : ~CollectAwards(u)
          /\ \A q \in DOMAIN pipes :
                 (\/ pipes'[q].value # pipes[q].value
                  \/ \E m \in {"Double", "Min"} :
                         UsesLeft(pipes'[q], m) < UsesLeft(pipes[q], m)) =>
                     \E u \in Tokens : CollectAwards(u) /\ req[u].pipe = q]_vars

\* C27 witness: two players' collects on the same pipe overlapped (both had logged
\* CollectStart before either logged CollectEnd), both have been awarded, and the
\* pipe, never reversed, is two steps on.
BothOverlappingCollectsCounted ==
    \E a \in Tokens :
      \E b \in Tokens \ {a} :
        \E i \in 1..Len(history), j \in 1..Len(history) :
            LET p == history[i].msg.pipe_id
                first == CHOOSE k \in Shown(p) : \A l \in Shown(p) : k <= l
            IN
            /\ i < j
            /\ history[i].msg.type = "CollectStart"
            /\ history[i].msg.user = a
            /\ history[j].msg.type = "CollectStart"
            /\ history[j].msg.user = b
            /\ history[j].msg.pipe_id = p
            /\ \A k \in 1..j : history[k].msg.type # "CollectEnd"
            /\ Awarded(p) = 2
            /\ NeverReversed(p)
            /\ pipes[p].value # history[first].msg.state.value
            /\ pipes[p].value = StepN(config, history[first].msg.state.value,
                                      pipes[p].direction, 2)

\* C28: whenever the lock of a pipe is free, the last UpdatePipe entry of the history
\* for that pipe (the one App::init wrote, if no other) shows the pipe's value,
\* base_delay, direction and modifiers as they are.
HistoryReplicatesPipes ==
    \A p \in DOMAIN pipes :
        pipeLock[p] = Free =>
            /\ Shown(p) # {}
            /\ LET last == CHOOSE i \in Shown(p) : \A j \in Shown(p) : j <= i
               IN history[last].msg.state = pipes[p]

\* C29: the times of the entries never decrease along the history.
TimestampsNonDecreasing ==
    \A i \in 1..Len(history) :
        \A j \in i..Len(history) : history[i].time <= history[j].time

====
